---- MODULE Spec2Model ----
(***************************************************************************)
(* Model of src/src/server/server.py: the reward server.  One POST /send   *)
(* handler (send_reward_route), the startup hook (init_wallet), the        *)
(* balance checker (check_eth_balance) and the transfer helpers            *)
(* (send_eth, send_usdc, encode_erc20_transfer).  The wallet platform      *)
(* behind cdp.evm.get_or_create_account is not part of the repository; it  *)
(* is modelled from spec.md section 4.2 / 5.                               *)
(***************************************************************************)
EXTENDS Integers, Sequences, FiniteSets, TLC

\* ------------------------------------------------------------------ bounds

\* Number of POST /send requests the model lets arrive.
NumReqs == 2

\* Longest "balances" list the balance API returns in the model.
MaxBalances == 2

\* ------------------------------------------------------- program constants

WALLET_NAME == "p2d-wallet"
NETWORK == "base-sepolia"
USDC_CONTRACT == "0x036CbD53842c5426634e7929541eC2318f3dCF7e"
USDC_DECIMALS == 6
ETH_DECIMALS == 18
TEST_ADDRESS == "0x153fc43c88d96c27a9ca15a429ea4cff2aa1c81d"

\* The placeholder contract address the balance API reports for native ETH
\* (the literal compared against in check_eth_balance).
NATIVE_CONTRACT == "0xEeeeeEeeeEeEeeEeEeEeeEEEeeeeEeeeeeeeEEeE"

\* A Python float / int is kept as a decimal mant * 10^exp, so that
\* 10**18-scaled values stay inside TLC's integers.
Zero == [mant |-> 0, exp |-> 0]

\* ETH_REWARD_AMOUNT = 0.00001, USDC_REWARD_AMOUNT = 0.01
ETH_REWARD_AMOUNT == [mant |-> 1, exp |-> -5]
USDC_REWARD_AMOUNT == [mant |-> 1, exp |-> -2]

\* ------------------------------------------------------------ Python bits

\* d.get(k, default)
Get(d, k, default) == IF k \in DOMAIN d THEN d[k] ELSE default

\* {} as the default of .get("token", {}) / .get("amount", {})
EmptyDict == [k \in {} |-> ""]

\* The outcome of evaluating a piece of code: a value, or a raised exception.
Ret(v) == [raised |-> FALSE, val |-> v, exc |-> ""]
Raise(e) == [raised |-> TRUE, val |-> Zero, exc |-> e]

RECURSIVE Pow10(_)
Pow10(n) == IF n = 0 THEN 1 ELSE 10 * Pow10(n - 1)

\* amount * 10**decimals on a decimal
Scale(x, decimals) == [mant |-> x.mant, exp |-> x.exp + decimals]

\* int(x): truncation toward zero; values in the model are non-negative
IntOf(x) == IF x.exp >= 0 THEN x ELSE [mant |-> x.mant \div Pow10(-x.exp), exp |-> 0]

\* The plain integer of an integral decimal small enough for hex().
PlainInt(x) == x.mant * Pow10(x.exp)

\* float(text): the texts the balance API samples carry; anything else is
\* not a number and float() raises ValueError.
IsFloatText(s) == s \in {"0", "1", "2"}
ParseFloat(s) == CASE s = "0" -> 0 [] s = "1" -> 1 [] s = "2" -> 2

\* float(balance_amount) / (10 ** decimals)
DivPow10(num, decimals) == IF num = 0 THEN Zero ELSE [mant |-> num, exp |-> -decimals]

\* str.upper() on the symbols of the samples
Upper(s) == CASE s = "eth" -> "ETH" [] s = "Eth" -> "ETH" [] s = "usdc" -> "USDC" [] OTHER -> s

\* str(n, 16) digit
HexDigit(d) == <<"0","1","2","3","4","5","6","7","8","9","a","b","c","d","e","f">>[d + 1]

RECURSIVE HexDigits(_)
HexDigits(n) == IF n < 16 THEN <<HexDigit(n)>> ELSE HexDigits(n \div 16) \o <<HexDigit(n % 16)>>

\* hex(n): "0x" followed by the digits
Hex(n) == <<"0", "x">> \o HexDigits(n)

\* s[2:]
Drop2(s) == SubSeq(s, 3, Len(s))

\* s.zfill(width) for a string without sign
RECURSIVE ZFill(_, _)
ZFill(s, width) == IF Len(s) >= width THEN s ELSE ZFill(<<"0">> \o s, width)

\* Web3.to_checksum_address(to): the EIP-55 form of a 20-byte hex address,
\* ValueError for anything else.  Tabulated for the addresses of the model
\* (the table rows are keccak-256 checksums computed outside the model).
IsAddress(to) == to \in {TEST_ADDRESS, "0x5aAeb6053F3E94C9b9A09f33669435E7Ef1BeAed"}
ChecksumChars(to) ==
    CASE to = TEST_ADDRESS ->
           <<"0","x","1","5","3","f","C","4","3","c","8","8","D","9","6","c","2","7","a","9","C","A","1","5","a","4","2","9","E","a","4","C","F","F","2","a","a","1","c","8","1","D">>
      [] to = "0x5aAeb6053F3E94C9b9A09f33669435E7Ef1BeAed" ->
           <<"0","x","5","a","A","e","b","6","0","5","3","F","3","E","9","4","C","9","b","9","A","0","9","f","3","3","6","6","9","4","3","5","E","7","E","f","1","B","e","A","e","d">>

\* ------------------------------------------------------ transfer encoding

\* encode_erc20_transfer(to, amount_units)
encode_erc20_transfer(to, amount_units) ==
    IF ~IsAddress(to) THEN Raise("ValueError: invalid address")
    ELSE Ret(<<"0","x","a","9","0","5","9","c","b","b">>
             \o ZFill(Drop2(ChecksumChars(to)), 64)
             \o ZFill(Drop2(Hex(amount_units)), 64))

NoData == <<>>

\* send_usdc up to the await: the transaction handed to cdp.evm.send_transaction
send_usdc(wallet_addr, to_addr, amount) ==
    LET amount_units == PlainInt(IntOf(Scale(amount, USDC_DECIMALS)))
        transfer_data == encode_erc20_transfer(to_addr, amount_units)
    IN  IF transfer_data.raised THEN transfer_data
        ELSE Ret([fn |-> "send_transaction", address |-> wallet_addr,
                  to |-> USDC_CONTRACT, data |-> transfer_data.val,
                  value |-> Zero, network |-> NETWORK])

\* send_eth up to the await.  Whether the platform's request type accepts
\* `to` is the platform's business: a refusal is one of the ways the
\* submission raises.
send_eth(wallet_addr, to_addr, amount) ==
    LET amount_wei == IntOf(Scale(amount, ETH_DECIMALS))
    IN  Ret([fn |-> "send_transaction", address |-> wallet_addr,
             to |-> to_addr, data |-> NoData,
             value |-> amount_wei, network |-> NETWORK])

\* --------------------------------------------------------- balance checker

\* What the outside world does during one check_eth_balance call: token
\* generation raises, the HTTP request raises, or the balance API answers
\* with a status and (for 200) a body that parses as JSON or does not.
EntrySamples ==
    { [token |-> [symbol |-> "ETH", contractAddress |-> NATIVE_CONTRACT],
       amount |-> [amount |-> "1", decimals |-> 18]],
      [token |-> [symbol |-> "ETH", contractAddress |-> NATIVE_CONTRACT],
       amount |-> [amount |-> "0", decimals |-> 18]],
      [token |-> [symbol |-> "eth", contractAddress |-> NATIVE_CONTRACT],
       amount |-> [amount |-> "2"]],
      [token |-> [symbol |-> "USDC", contractAddress |-> USDC_CONTRACT],
       amount |-> [amount |-> "1", decimals |-> 6]],
      [token |-> [symbol |-> "ETH", contractAddress |-> "0xeeeeeeeeeeeeeeeeeeeeeeeeeeeeeeeeeeeeeeee"],
       amount |-> [amount |-> "1", decimals |-> 18]],
      [token |-> [symbol |-> "ETH", contractAddress |-> NATIVE_CONTRACT],
       amount |-> [amount |-> "abc", decimals |-> 18]],
      [amount |-> [amount |-> "1", decimals |-> 18]] }

BalanceLists == UNION { [1..k -> EntrySamples] : k \in 0..MaxBalances }

ExcTexts == {"ApiError", "TimeoutError"}

\* resp.status values of the model
HttpStatuses == {200, 401, 500}

ApiOutcome(stage, exc, status, json_ok, data) ==
    [stage |-> stage, exc |-> exc, status |-> status, json_ok |-> json_ok, data |-> data]

BalanceOutcomes ==
    { ApiOutcome("jwt_raise", e, 0, FALSE, [data |-> <<>>]) : e \in ExcTexts }
    \cup { ApiOutcome("http_raise", e, 0, FALSE, [data |-> <<>>]) : e \in ExcTexts }
    \cup { ApiOutcome("response", "", s, TRUE, [data |-> <<>>]) : s \in HttpStatuses \ {200} }
    \cup { ApiOutcome("response", "", 200, FALSE, [data |-> <<>>]) }
    \cup { ApiOutcome("response", "", 200, TRUE, [data |-> <<>>]) }
    \cup { ApiOutcome("response", "", 200, TRUE, [balances |-> l]) : l \in BalanceLists }

\* Whether entry `balance` is the ETH entry (lines 211-212).
IsEthEntry(balance) ==
    LET token == Get(balance, "token", EmptyDict)
    IN  /\ Upper(Get(token, "symbol", "")) = "ETH"
        /\ Get(token, "contractAddress", "<None>") = NATIVE_CONTRACT

\* The value computed from a matching entry (lines 214-220).
EntryBalance(balance) ==
    LET amount == Get(balance, "amount", EmptyDict)
        balance_amount == Get(amount, "amount", "0")
        decimals == Get(amount, "decimals", 18)
    IN  IF IsFloatText(balance_amount)
        THEN Ret(DivPow10(ParseFloat(balance_amount), decimals))
        ELSE Raise("ValueError: could not convert string to float")

\* for balance in balances: ... (lines 206-223), from entry i on
RECURSIVE ScanBalances(_, _)
ScanBalances(balances, i) ==
    IF i > Len(balances) THEN Ret(Zero)
    ELSE IF IsEthEntry(balances[i]) THEN EntryBalance(balances[i])
    ELSE ScanBalances(balances, i + 1)

\* The body of check_eth_balance's try block (lines 176-223).
check_eth_balance_try(address, o) ==
    IF o.stage = "jwt_raise" THEN Raise(o.exc)
    ELSE IF o.stage = "http_raise" THEN Raise(o.exc)
    ELSE IF o.status # 200 THEN Ret(Zero)
    ELSE IF ~o.json_ok THEN Raise("ContentTypeError")
    ELSE ScanBalances(Get(o.data, "balances", <<>>), 1)

\* Mutant: the try block without its except clause.
check_eth_balance_no_except(address, o) == check_eth_balance_try(address, o)

\* check_eth_balance(address): the try block, and 0.0 on any exception.
check_eth_balance(address, o) ==
    LET got == check_eth_balance_try(address, o)
    IN  IF got.raised THEN Ret(Zero) ELSE got

\* ----------------------------------------------------------------- state

VARIABLES
    server,     \* "booting", "accepting" or "crashed"
    accounts,   \* the wallet platform's accounts: records [name, address]
    sdk,        \* per caller, the get_or_create_account call in progress
    req,        \* per request, the handler's locals and its outcome
    bal_in,     \* balance checker on its own: the address and the API outcome
    bal_out     \* balance checker on its own: the call's result

vars == <<server, accounts, sdk, req, bal_in, bal_out>>

Reqs == 1..NumReqs
Startup == 0
Callers == {Startup} \cup Reqs

\* ---------------------------------------------------------- wallet platform

\* cdp.evm.get_or_create_account lives in the wallet platform's SDK, outside
\* the repository.  It is modelled from the specification's Wallet
\* Provisioner: look the name up, create it on a miss, and when creation
\* reports that the name already exists look it up again; any other failure
\* is propagated.  Each platform request is one atomic step.

\* `dup` records that creation reported a duplicate name during the call.
SdkIdle == [pc |-> "idle", name |-> "", address |-> 0, exc |-> "", dup |-> FALSE]

AccountsNamed(name) == { a \in accounts : a.name = name }

\* The address the platform gives the next account it creates.
NewAddress == Cardinality(accounts) + 1

\* Lookup by name finds the account: the call returns it.
SdkLookupFound(c) ==
    /\ sdk[c].pc \in {"get", "reget"}
    /\ \E a \in AccountsNamed(sdk[c].name) :
          sdk' = [sdk EXCEPT ![c].pc = "ret", ![c].address = a.address]
    /\ UNCHANGED <<server, accounts, req, bal_in, bal_out>>

\* Lookup by name misses: go on to create.
SdkLookupMissing(c) ==
    /\ sdk[c].pc = "get"
    /\ AccountsNamed(sdk[c].name) = {}
    /\ sdk' = [sdk EXCEPT ![c].pc = "create"]
    /\ UNCHANGED <<server, accounts, req, bal_in, bal_out>>

\* Creation succeeds: the name was free.
SdkCreateOk(c) ==
    /\ sdk[c].pc = "create"
    /\ AccountsNamed(sdk[c].name) = {}
    /\ accounts' = accounts \cup {[name |-> sdk[c].name, address |-> NewAddress]}
    /\ sdk' = [sdk EXCEPT ![c].pc = "ret", ![c].address = NewAddress]
    /\ UNCHANGED <<server, req, bal_in, bal_out>>

\* Creation reports a duplicate name: re-run the lookup.
SdkCreateDuplicate(c) ==
    /\ sdk[c].pc = "create"
    /\ AccountsNamed(sdk[c].name) # {}
    /\ sdk' = [sdk EXCEPT ![c].pc = "reget", ![c].dup = TRUE]
    /\ UNCHANGED <<server, accounts, req, bal_in, bal_out>>

\* Any other failure of a platform request is raised to the caller.
SdkFail(c) ==
    /\ sdk[c].pc \in {"get", "create", "reget"}
    /\ \E e \in ExcTexts : sdk' = [sdk EXCEPT ![c].pc = "raised", ![c].exc = e]
    /\ UNCHANGED <<server, accounts, req, bal_in, bal_out>>

\* Another instance of the service (or any other client of the platform)
\* creates the account of that name first.
OtherInstanceCreates ==
    /\ AccountsNamed(WALLET_NAME) = {}
    /\ accounts' = accounts \cup {[name |-> WALLET_NAME, address |-> NewAddress]}
    /\ UNCHANGED <<server, sdk, req, bal_in, bal_out>>

\* Mutant: the account is asked for without the fixed name.
get_or_create_wallet_unnamed == [pc |-> "get", name |-> "", address |-> 0, exc |-> "", dup |-> FALSE]

\* get_or_create_wallet(): the call it starts, awaited by the caller.
get_or_create_wallet == [pc |-> "get", name |-> WALLET_NAME, address |-> 0, exc |-> "", dup |-> FALSE]

\* ------------------------------------------------------------ startup hook

\* app.run -> before_server_start -> init_wallet: up to the await.
StartupBegin ==
    /\ server = "booting"
    /\ sdk[Startup].pc = "idle"
    /\ sdk' = [sdk EXCEPT ![Startup] = get_or_create_wallet]
    /\ UNCHANGED <<server, accounts, req, bal_in, bal_out>>

\* The wallet call returned: the address is printed, the hook ends and the
\* server starts accepting requests.
StartupDone ==
    /\ server = "booting"
    /\ sdk[Startup].pc = "ret"
    /\ server' = "accepting"
    /\ UNCHANGED <<accounts, sdk, req, bal_in, bal_out>>

\* The wallet call raised: init_wallet has no handler, the exception leaves
\* the before_server_start listener and the server does not start.
StartupRaised ==
    /\ server = "booting"
    /\ sdk[Startup].pc = "raised"
    /\ server' = "crashed"
    /\ UNCHANGED <<accounts, sdk, req, bal_in, bal_out>>

\* ------------------------------------------------------------ POST /send

\* None, as data.get("to") returns it for a missing key
NoneVal == "<None>"

\* Request bodies: no body at all (request.json is None), a falsy JSON value
\* such as [] or {} or 0, a truthy JSON value that is not an object such as
\* [1], and JSON objects.  Field values are kept as their JSON text; `amount`
\* is carried because requests send it, the handler never reads it.
Bodies ==
    { [kind |-> "none"],
      [kind |-> "falsy"],
      [kind |-> "array"],
      [kind |-> "object", obj |-> [amount |-> "1.0"]],
      [kind |-> "object", obj |-> [to |-> "", amount |-> "0"]],
      [kind |-> "object", obj |-> [to |-> TEST_ADDRESS]],
      [kind |-> "object", obj |-> [to |-> "0x5aAeb6053F3E94C9b9A09f33669435E7Ef1BeAed", amount |-> "-1"]],
      [kind |-> "object", obj |-> [to |-> "0xRecipient", amount |-> "abc"]] }

\* data = request.json or {}
DataOf(b) == IF b.kind = "object" THEN b.obj ELSE EmptyDict

\* to_addr = data.get("to"): a truthy body that is not an object has no .get
ToAddrOf(b) ==
    IF b.kind = "array" THEN Raise("AttributeError: 'list' object has no attribute 'get'")
    ELSE Ret(Get(DataOf(b), "to", NoneVal))

\* Mutant: `to_addr is None` in place of `not to_addr`.
FalsyNoneOnly(v) == v = NoneVal

\* not to_addr
Falsy(v) == v \in {NoneVal, ""}

Response(status, body) == [outcome |-> "responded", status |-> status, rbody |-> body]

\* The exception left the handler: no response of the handler's making.
Unhandled(e) == [outcome |-> "raised", status |-> 0, rbody |-> [exception |-> e]]

\* response.json({"error": ...}, status=400); the message's backquotes
\* around the word to are written as apostrophes here.
MissingTo == Response(400, [error |-> "Missing 'to' address"])

\* Mutant: a 500 response that drops the exception's text.
SendFailedGeneric(e) == [outcome |-> "responded", status |-> 500, rbody |-> [error |-> <<"Failed to send reward">>]]

\* except Exception as e: response.json({"error": f"Failed to send reward: {e}"}, status=500)
SendFailed(e) == Response(500, [error |-> <<"Failed to send reward: ", e>>])

\* f"{ETH_REWARD_AMOUNT}", f"{USDC_REWARD_AMOUNT}"
FormatFloat(x) == CASE x = ETH_REWARD_AMOUNT -> "1e-05" [] x = USDC_REWARD_AMOUNT -> "0.01"

EthCompleted(tx_hash) ==
    Response(200, [status |-> "completed", transaction_hash |-> tx_hash,
                   reward_type |-> "ETH", amount |-> FormatFloat(ETH_REWARD_AMOUNT),
                   reason |-> "new_user"])

UsdcCompleted(tx_hash) ==
    Response(200, [status |-> "completed", transaction_hash |-> tx_hash,
                   reward_type |-> "USDC", amount |-> FormatFloat(USDC_REWARD_AMOUNT),
                   reason |-> "existing_user"])

\* Mutant: a threshold in place of the comparison with 0.0.
RewardTypeThreshold(eth_balance) == IF eth_balance.mant <= 1 THEN "ETH" ELSE "USDC"

\* if eth_balance == 0.0: ... else: ...
RewardType(eth_balance) == IF eth_balance = Zero THEN "ETH" ELSE "USDC"

\* Mutant: the recipient is kept in one place shared by all requests (the
\* first request's), not in the handler's own local.
RewardTransactionSharedTo(wallet_addr, to_addr, eth_balance) ==
    IF RewardType(eth_balance) = "ETH"
    THEN send_eth(wallet_addr, req[1].to_addr, ETH_REWARD_AMOUNT)
    ELSE send_usdc(wallet_addr, req[1].to_addr, USDC_REWARD_AMOUNT)

\* The transaction the chosen branch builds (send_eth / send_usdc up to
\* the await), or the exception building it raises.
RewardTransaction(wallet_addr, to_addr, eth_balance) ==
    IF RewardType(eth_balance) = "ETH"
    THEN send_eth(wallet_addr, to_addr, ETH_REWARD_AMOUNT)
    ELSE send_usdc(wallet_addr, to_addr, USDC_REWARD_AMOUNT)

TxHashes == {"0xhash1", "0xhash2"}

ReqIdle ==
    [pc |-> "idle", body |-> [kind |-> "none"], to_addr |-> NoneVal, wallet |-> 0,
     eth_balance |-> Zero, api |-> "none", calls |-> <<>>,
     http_status |-> 0, sent |-> "no", sent_exc |-> "",
     outcome |-> "pending", status |-> 0, rbody |-> EmptyDict]

\* Fields of a request: pc is where the handler stands ("idle" before the
\* request arrives, then the await it is suspended at, then "done"); body,
\* to_addr, wallet and eth_balance are the handler's request and locals;
\* http_status is resp.status while the response's body is awaited; calls
\* lists the external calls the handler made, in order; api records whether
\* the balance API failed, sent and sent_exc how send_transaction ended;
\* outcome, status and rbody are the response (or the exception that left
\* the handler).

\* The handler ends with `resp` (a response, or an exception that left it).
Finish(rq, resp) ==
    [rq EXCEPT !.pc = "done", !.outcome = resp.outcome,
               !.status = resp.status, !.rbody = resp.rbody]

\* Whether the balance API failed during the query: an exception in token
\* generation or the HTTP request or JSON parsing, or a non-200 answer.
ApiFailed(o) == o.stage # "response" \/ o.status # 200 \/ ~o.json_ok

\* The `to` values of the requests that reach the balance query.
QueriedAddresses ==
    { Get(DataOf(b), "to", NoneVal) : b \in { x \in Bodies : x.kind = "object" } }
        \ {NoneVal, ""}

\* For each queried address, what check_eth_balance can come back with, each
\* with whether the balance API failed on the way, by how far the call got:
\* token generation raised, the HTTP request raised, or the API answered
\* with a status.
BalanceResults ==
    [a \in QueriedAddresses |->
      [stage \in {"jwt_raise", "http_raise", "response"} |->
        [status \in HttpStatuses \cup {0} |->
          { [got |-> check_eth_balance(a, o), failed |-> ApiFailed(o)] :
              o \in { x \in BalanceOutcomes : x.stage = stage /\ x.status = status } }]]]

\* A request arrives: the handler runs to its first await (lines 277-285).
\* Requests are numbered in the order they arrive.
Receive(r) ==
    /\ server = "accepting"
    /\ req[r].pc = "idle"
    /\ IF r = 1 THEN TRUE ELSE req[r - 1].pc # "idle"
    /\ \E b \in Bodies :
         LET t == ToAddrOf(b)
             rq == [req[r] EXCEPT !.body = b]
         IN  IF t.raised
             THEN /\ req' = [req EXCEPT ![r] = Finish(rq, Unhandled(t.exc))]
                  /\ sdk' = sdk
             ELSE IF Falsy(t.val)
             THEN /\ req' = [req EXCEPT ![r] = Finish(rq, MissingTo)]
                  /\ sdk' = sdk
             ELSE /\ req' = [req EXCEPT ![r] =
                               [rq EXCEPT !.pc = "wallet", !.to_addr = t.val,
                                          !.calls = <<[fn |-> "get_or_create_wallet"]>>]]
                  /\ sdk' = [sdk EXCEPT ![r] = get_or_create_wallet]
    /\ UNCHANGED <<server, accounts, bal_in, bal_out>>

\* check_eth_balance returned `res` to the handler `rq`: the handler branches
\* on the balance, builds the transaction and waits for
\* cdp.evm.send_transaction (lines 288-309); an exception on the way is
\* caught at line 319.
AfterBalance(rq0, res) ==
    LET got == res.got
        tx == RewardTransaction(rq0.wallet, rq0.to_addr, got.val)
        rq == [rq0 EXCEPT !.api = IF res.failed THEN "failed" ELSE "ok", !.http_status = 0]
    IN  IF got.raised
        THEN Finish(rq, SendFailed(got.exc))
        ELSE IF tx.raised
        THEN Finish([rq EXCEPT !.eth_balance = got.val], SendFailed(tx.exc))
        ELSE [rq EXCEPT !.pc = "send", !.eth_balance = got.val,
                        !.sent = "pending", !.calls = Append(@, tx.val)]

\* get_or_create_wallet returned: the handler calls check_eth_balance(to_addr),
\* which runs up to `async with session.get(...)` and waits for the balance
\* API (lines 285-288, 175-194); when token generation raises (line 183)
\* check_eth_balance returns 0.0 at once and the handler goes on to the
\* submission without suspending.
WalletReturned(r) ==
    /\ req[r].pc = "wallet"
    /\ sdk[r].pc = "ret"
    /\ LET rq == [req[r] EXCEPT !.wallet = sdk[r].address,
                                !.calls = Append(@, [fn |-> "check_eth_balance",
                                                     address |-> req[r].to_addr])]
       IN  \/ req' = [req EXCEPT ![r] = [rq EXCEPT !.pc = "balance"]]
           \/ \E res \in BalanceResults[req[r].to_addr]["jwt_raise"][0] :
                 req' = [req EXCEPT ![r] = AfterBalance(rq, res)]
    /\ UNCHANGED <<server, accounts, sdk, bal_in, bal_out>>

\* get_or_create_wallet raised: caught at line 319.
WalletRaised(r) ==
    /\ req[r].pc = "wallet"
    /\ sdk[r].pc = "raised"
    /\ req' = [req EXCEPT ![r] = Finish(@, SendFailed(sdk[r].exc))]
    /\ UNCHANGED <<server, accounts, sdk, bal_in, bal_out>>

\* session.get resumed (line 194).  It raised: check_eth_balance returns 0.0
\* (lines 225-227) and the handler goes on to the submission.  It answered:
\* resp.status is known and the body is awaited, resp.text() for a status
\* other than 200 (line 196), resp.json() for 200 (line 200).
BalanceAnswered(r) ==
    /\ req[r].pc = "balance"
    /\ \/ \E res \in BalanceResults[req[r].to_addr]["http_raise"][0] :
            req' = [req EXCEPT ![r] = AfterBalance(@, res)]
       \/ \E status \in HttpStatuses :
            req' = [req EXCEPT ![r] = [@ EXCEPT !.pc = "body", !.http_status = status]]
    /\ UNCHANGED <<server, accounts, sdk, bal_in, bal_out>>

\* The body arrived (or reading it raised): check_eth_balance scans it and
\* returns (lines 195-227), and the handler goes on to the submission.
BalanceBodyRead(r) ==
    /\ req[r].pc = "body"
    /\ \E res \in BalanceResults[req[r].to_addr]["response"][req[r].http_status] :
         req' = [req EXCEPT ![r] = AfterBalance(@, res)]
    /\ UNCHANGED <<server, accounts, sdk, bal_in, bal_out>>

\* send_transaction returned a transaction hash: the 200 response of the
\* branch taken (lines 296-304, 309-317).
SubmitReturned(r) ==
    /\ req[r].pc = "send"
    /\ \E h \in TxHashes :
         req' = [req EXCEPT ![r] =
                   Finish([@ EXCEPT !.sent = "returned"],
                          IF RewardType(req[r].eth_balance) = "ETH"
                          THEN EthCompleted(h) ELSE UsdcCompleted(h))]
    /\ UNCHANGED <<server, accounts, sdk, bal_in, bal_out>>

\* Mutant: after a failed submission the other reward path is tried.
SubmitRaisedRetries(r) ==
    /\ req[r].pc = "send"
    /\ \E e \in ExcTexts :
         req' = [req EXCEPT ![r] =
                   [@ EXCEPT !.sent = "raised", !.sent_exc = e,
                             !.calls = Append(@, send_eth(req[r].wallet, req[r].to_addr,
                                                          ETH_REWARD_AMOUNT).val)]]
    /\ UNCHANGED <<server, accounts, sdk, bal_in, bal_out>>

\* send_transaction raised: caught at line 319, nothing else is called.
SubmitRaised(r) ==
    /\ req[r].pc = "send"
    /\ \E e \in ExcTexts :
         req' = [req EXCEPT ![r] =
                   Finish([@ EXCEPT !.sent = "raised", !.sent_exc = e], SendFailed(e))]
    /\ UNCHANGED <<server, accounts, sdk, bal_in, bal_out>>

\* ------------------------------------------------------- the specifications

\* The balance checker on its own: pc is where the call stands ("start"
\* before it, "get" waiting for session.get, "body" waiting for the body).
BalIdle == [pc |-> "start", done |-> FALSE, raised |-> FALSE, val |-> Zero, exc |-> ""]

\* check_eth_balance has returned (or raised) `got`.
BalReturn(got) == [pc |-> "done", done |-> TRUE, raised |-> got.raised, val |-> got.val, exc |-> got.exc]

Init ==
    /\ server = "booting"
    /\ accounts = {}
    /\ sdk = [c \in Callers |-> SdkIdle]
    /\ req = [r \in Reqs |-> ReqIdle]
    /\ bal_in = [address |-> TEST_ADDRESS, api |-> ApiOutcome("response", "", 200, TRUE, [data |-> <<>>])]
    /\ bal_out = BalIdle

Next ==
    \/ StartupBegin
    \/ StartupDone
    \/ StartupRaised
    \/ OtherInstanceCreates
    \/ \E c \in Callers :
         \/ SdkLookupFound(c)
         \/ SdkLookupMissing(c)
         \/ SdkCreateOk(c)
         \/ SdkCreateDuplicate(c)
         \/ SdkFail(c)
    \/ \E r \in Reqs :
         \/ Receive(r)
         \/ WalletReturned(r)
         \/ WalletRaised(r)
         \/ BalanceAnswered(r)
         \/ BalanceBodyRead(r)
         \/ SubmitReturned(r)
         \/ SubmitRaised(r)

Spec == Init /\ [][Next]_vars

\* The balance checker on its own: the address and what the outside world
\* does are drawn at the start, and the call runs against them, suspending
\* where the code awaits.
InitBalance ==
    /\ server = "booting"
    /\ accounts = {}
    /\ sdk = [c \in Callers |-> SdkIdle]
    /\ req = [r \in Reqs |-> ReqIdle]
    /\ bal_in \in [address : {TEST_ADDRESS, "0xRecipient"}, api : BalanceOutcomes]
    /\ bal_out = BalIdle

\* The call runs up to `async with session.get(...)` (lines 175-194); when
\* token generation raises it ends here.
BalanceCallStart ==
    /\ bal_out.pc = "start"
    /\ bal_out' = IF bal_in.api.stage = "jwt_raise"
                  THEN BalReturn(check_eth_balance(bal_in.address, bal_in.api))
                  ELSE [bal_out EXCEPT !.pc = "get"]
    /\ UNCHANGED <<server, accounts, sdk, req, bal_in>>

\* session.get resumed: it raised and the call ends, or the status is known
\* and the body is awaited (lines 194-200).
BalanceCallAnswered ==
    /\ bal_out.pc = "get"
    /\ bal_out' = IF bal_in.api.stage = "http_raise"
                  THEN BalReturn(check_eth_balance(bal_in.address, bal_in.api))
                  ELSE [bal_out EXCEPT !.pc = "body"]
    /\ UNCHANGED <<server, accounts, sdk, req, bal_in>>

\* The body arrived (or reading it raised): the scan and the return
\* (lines 195-227).
BalanceCallBodyRead ==
    /\ bal_out.pc = "body"
    /\ bal_out' = BalReturn(check_eth_balance(bal_in.address, bal_in.api))
    /\ UNCHANGED <<server, accounts, sdk, req, bal_in>>

NextBalance ==
    \/ BalanceCallStart
    \/ BalanceCallAnswered
    \/ BalanceCallBodyRead

SpecBalance == InitBalance /\ [][NextBalance]_vars

\* ------------------------------------------------------------- the claims

\* What the claims say about a request, read off its body and its calls.
Arrived(r) == req[r].pc # "idle"
Done(r) == req[r].pc = "done"
BodyHasTo(b) == b.kind = "object" /\ "to" \in DOMAIN b.obj /\ b.obj.to # ""
BodyTo(b) == b.obj.to
BadAmount(b) == b.kind = "object" /\ "amount" \in DOMAIN b.obj /\ b.obj.amount \in {"0", "-1", "abc"}
Submissions(r) == { i \in 1..Len(req[r].calls) : req[r].calls[i].fn = "send_transaction" }
Positive(x) == x.mant > 0
ErrorText(r) == req[r].rbody.error
IsErrorResponse(r, status) ==
    req[r].outcome = "responded" /\ req[r].status = status /\ DOMAIN req[r].rbody = {"error"}

\* 0.00001 ETH in wei, 0.01 USDC in base units (as hex), the transfer selector
RewardWei == [mant |-> 1, exp |-> 13]
RewardUnitsHex == <<"2", "7", "1", "0">>
TransferSelector == <<"0", "x", "a", "9", "0", "5", "9", "c", "b", "b">>
Zeros(n) == [i \in 1..n |-> "0"]

IsNativeTransfer(tx, to) ==
    tx.to = to /\ tx.value = RewardWei /\ tx.data = <<>> /\ tx.network = "base-sepolia"

IsUsdcTransfer(tx, to) ==
    /\ tx.to = USDC_CONTRACT /\ tx.value = Zero /\ tx.network = "base-sepolia"
    /\ Len(tx.data) = 138
    /\ SubSeq(tx.data, 1, 10) = TransferSelector
    /\ SubSeq(tx.data, 11, 34) = Zeros(24)
    /\ SubSeq(tx.data, 35, 74) = SubSeq(ChecksumChars(to), 3, 42)
    /\ SubSeq(tx.data, 75, 134) = Zeros(60)
    /\ SubSeq(tx.data, 135, 138) = RewardUnitsHex

\* C1: a request whose body has no `to` (no body, no field, or a falsy
\* value) is answered 400 with an error field, and makes no downstream call.
C1_MissingToIs400 ==
    \A r \in Reqs :
        Done(r) /\ ~BodyHasTo(req[r].body)
            => IsErrorResponse(r, 400) /\ req[r].calls = <<>>

\* C2: the reward path depends on the observed balance alone: with balance
\* exactly 0 the one submission is the native transfer of the ETH reward to
\* the recipient, with a positive balance it is the USDC transfer of the USDC
\* reward; a request with a well-formed address that has observed a balance
\* has made that submission.
C2_RewardPathByBalance ==
    \A r \in Reqs :
        req[r].api # "none" =>
            /\ \A i \in Submissions(r) :
                 /\ req[r].eth_balance = Zero
                      => IsNativeTransfer(req[r].calls[i], BodyTo(req[r].body))
                 /\ Positive(req[r].eth_balance)
                      => IsUsdcTransfer(req[r].calls[i], BodyTo(req[r].body))
            /\ IsAddress(BodyTo(req[r].body)) => Cardinality(Submissions(r)) = 1

C2_Witness ==
    \E r1, r2 \in Reqs :
        /\ req[r1].eth_balance = Zero /\ req[r1].sent = "returned"
        /\ req[r1].rbody.reward_type = "ETH"
        /\ Positive(req[r2].eth_balance) /\ req[r2].sent = "returned"
        /\ req[r2].rbody.reward_type = "USDC"

\* C3: when send_transaction raises, the response is 500 with the failure
\* text in its error field, and the failed submission is the request's last
\* external call.
C3_SubmissionFailureIs500 ==
    \A r \in Reqs :
        req[r].sent = "raised" =>
            /\ Done(r)
            /\ IsErrorResponse(r, 500)
            /\ ErrorText(r) = <<"Failed to send reward: ", req[r].sent_exc>>
            /\ req[r].sent_exc \in ExcTexts
            /\ Submissions(r) = {Len(req[r].calls)}

C3_Witness ==
    \E r \in Reqs :
        /\ req[r].sent = "raised" /\ req[r].status = 500
        /\ ErrorText(r)[2] = "TimeoutError"

\* C4, as stated: a request whose amount is <= 0 or non-numeric is answered
\* 400 and makes no downstream call.
C4_BadAmountIs400 ==
    \A r \in Reqs :
        Arrived(r) /\ BadAmount(req[r].body)
            => req[r].calls = <<>> /\ (Done(r) => IsErrorResponse(r, 400))

\* C4, amended: the reward endpoint does not read `amount`.  A request whose
\* amount is <= 0 or non-numeric is answered 400 without a downstream call
\* exactly when its `to` is missing or falsy; with a truthy `to` it is
\* processed (the wallet call is made, the answer is not 400) and what is
\* sent is the fixed reward.
C4_AmountIsNotValidated ==
    \A r \in Reqs :
        Arrived(r) /\ BadAmount(req[r].body) =>
            IF BodyHasTo(req[r].body)
            THEN /\ req[r].calls # <<>>
                 /\ req[r].status # 400
                 /\ \A i \in Submissions(r) :
                      \/ IsNativeTransfer(req[r].calls[i], BodyTo(req[r].body))
                      \/ IsUsdcTransfer(req[r].calls[i], BodyTo(req[r].body))
            ELSE Done(r) /\ IsErrorResponse(r, 400) /\ req[r].calls = <<>>

C4_Witness ==
    \E r1, r2 \in Reqs :
        /\ BadAmount(req[r1].body) /\ ~BodyHasTo(req[r1].body) /\ req[r1].status = 400
        /\ BadAmount(req[r2].body) /\ BodyHasTo(req[r2].body) /\ req[r2].status = 200

\* C5: every finished request has one response of one of three shapes: 200
\* with status and transaction_hash, only after its submission returned; 400
\* with error, only when validation failed; 500 with error.
C5_ThreeResponseShapes ==
    \A r \in Reqs :
        Done(r) =>
            /\ req[r].outcome = "responded"
            /\ \/ /\ req[r].status = 200
                  /\ {"status", "transaction_hash"} \subseteq DOMAIN req[r].rbody
                  /\ req[r].sent = "returned"
               \/ /\ IsErrorResponse(r, 400)
                  /\ ~BodyHasTo(req[r].body)
               \/ IsErrorResponse(r, 500)

\* C6, as stated: a failure of the wallet platform or of the balance API
\* during a request gives a 500 response, never a 200.
C6_ProviderFailureIs500 ==
    \A r \in Reqs :
        Done(r) /\ (sdk[r].pc = "raised" \/ req[r].sent = "raised" \/ req[r].api = "failed")
            => IsErrorResponse(r, 500)

\* C6, amended: a failure of the wallet platform (wallet get-or-create or
\* transaction submission raising) gives a 500 response carrying the
\* exception's text, never a 200.  A failure of the balance API does not:
\* check_eth_balance returns 0 for it, the request takes the ETH path, and
\* the response is 200 when send_eth returns and 500 only when it raises.
C6_WalletPlatformFailureIs500 ==
    \A r \in Reqs :
        /\ Arrived(r) /\ sdk[r].pc = "raised" /\ req[r].pc # "wallet"
             => /\ IsErrorResponse(r, 500)
                /\ ErrorText(r) = <<"Failed to send reward: ", sdk[r].exc>>
                /\ sdk[r].exc \in ExcTexts
        /\ req[r].sent = "raised"
             => /\ IsErrorResponse(r, 500)
                /\ ErrorText(r) = <<"Failed to send reward: ", req[r].sent_exc>>
        /\ req[r].api = "failed"
             => /\ req[r].eth_balance = Zero
                /\ \A i \in Submissions(r) :
                     IsNativeTransfer(req[r].calls[i], BodyTo(req[r].body))
                /\ Done(r) => (req[r].status = 200 <=> req[r].sent = "returned")
                /\ Done(r) => (req[r].status = 500 <=> req[r].sent = "raised")

C6_Witness ==
    \E r1, r2 \in Reqs :
        /\ sdk[r1].pc = "raised" /\ req[r1].status = 500
        /\ req[r2].api = "failed" /\ req[r2].status = 200

\* C7: whatever the startup hook's outcome, the server comes to accept
\* requests: it never ends up not started.
C7_ServerStartsAfterAnyStartupOutcome ==
    sdk[Startup].pc \in {"ret", "raised"} => server \in {"booting", "accepting"}

\* C8: every get_or_create_wallet call that returns, at startup or in a
\* handler, yields the one address of the one account named WALLET_NAME; a
\* duplicate-name report during creation is followed by a lookup and is
\* never the error the call raises.
C8_WalletProvisioningIdempotent ==
    /\ Cardinality(AccountsNamed(WALLET_NAME)) <= 1
    /\ \A c \in Callers :
         /\ sdk[c].pc = "ret"
              => AccountsNamed(WALLET_NAME) = {[name |-> WALLET_NAME, address |-> sdk[c].address]}
         /\ sdk[c].dup => sdk[c].pc \in {"reget", "ret", "raised"}
         /\ sdk[c].pc = "raised" => sdk[c].exc \in ExcTexts
         /\ sdk[c].pc # "idle" => sdk[c].name = WALLET_NAME
    /\ \A c1, c2 \in Callers :
         sdk[c1].pc = "ret" /\ sdk[c2].pc = "ret" => sdk[c1].address = sdk[c2].address
    /\ \A r \in Reqs :
         req[r].api # "none" => req[r].wallet = sdk[Startup].address

C8_Witness ==
    /\ sdk[Startup].dup /\ sdk[Startup].pc = "ret"
    /\ \E r \in Reqs : req[r].api # "none" /\ req[r].wallet = sdk[Startup].address

\* C9: check_eth_balance never raises; it returns 0 when token generation
\* or the HTTP request raises, when the status is not 200, and when no entry
\* has both the ETH symbol and the native placeholder address; a value other
\* than 0 comes only from the first such entry of a 200 response.
C9_Balances == IF "balances" \in DOMAIN bal_in.api.data THEN bal_in.api.data.balances ELSE <<>>
C9_Matches(e) ==
    /\ "token" \in DOMAIN e
    /\ e.token.symbol \in {"ETH", "eth", "Eth"}
    /\ e.token.contractAddress = "0xEeeeeEeeeEeEeeEeEeEeeEEEeeeeEeeeeeeeEEeE"
C9_Value(e) ==
    [mant |-> CASE e.amount.amount = "1" -> 1 [] e.amount.amount = "2" -> 2 [] OTHER -> 0,
     exp |-> IF "decimals" \in DOMAIN e.amount THEN -e.amount.decimals ELSE -18]

C9_BalanceDefaultsToZero ==
    bal_out.done =>
        /\ ~bal_out.raised
        /\ bal_in.api.stage # "response" => bal_out.val = Zero
        /\ bal_in.api.stage = "response" /\ bal_in.api.status # 200 => bal_out.val = Zero
        /\ (\A i \in 1..Len(C9_Balances) : ~C9_Matches(C9_Balances[i])) => bal_out.val = Zero
        /\ bal_out.val # Zero =>
             /\ bal_in.api.stage = "response" /\ bal_in.api.status = 200
             /\ \E i \in 1..Len(C9_Balances) :
                  /\ C9_Matches(C9_Balances[i])
                  /\ \A j \in 1..(i - 1) : ~C9_Matches(C9_Balances[j])
                  /\ bal_out.val = C9_Value(C9_Balances[i])

C9_Witness ==
    /\ bal_out.done /\ bal_out.val = [mant |-> 2, exp |-> -18]
    /\ Len(C9_Balances) = 2
    /\ ~C9_Matches(C9_Balances[1])
    /\ C9_Matches(C9_Balances[2])

\* C10: a request's external calls are, in this order, wallet get-or-create,
\* balance query, one transaction submission; after a failed wallet call
\* nothing else is called; the balance query is about the request's own `to`,
\* and the submission is sent from the wallet returned to this request to
\* this request's `to`.
C10_CallOrderPerRequest ==
    \A r \in Reqs :
        LET calls == req[r].calls IN
        /\ Len(calls) <= 3
        /\ Len(calls) >= 1 => calls[1].fn = "get_or_create_wallet" /\ BodyHasTo(req[r].body)
        /\ Len(calls) >= 2 =>
             /\ calls[2].fn = "check_eth_balance"
             /\ calls[2].address = BodyTo(req[r].body)
             /\ sdk[r].pc = "ret"
        /\ Len(calls) = 3 =>
             /\ calls[3].fn = "send_transaction"
             /\ req[r].api # "none"
             /\ calls[3].address = sdk[r].address
             /\ \/ IsNativeTransfer(calls[3], BodyTo(req[r].body))
                \/ IsUsdcTransfer(calls[3], BodyTo(req[r].body))
        /\ sdk[r].pc = "raised" => Len(calls) = 1
        /\ req[r].sent # "no" <=> Len(calls) = 3

C10_Witness ==
    \E r1, r2 \in Reqs :
        /\ req[r1].pc = "send" /\ req[r2].pc = "send"
        /\ BodyTo(req[r1].body) # BodyTo(req[r2].body)
        /\ req[r1].eth_balance = Zero /\ Positive(req[r2].eth_balance)

====
